---- MODULE Spec2Model ----
(***************************************************************************)
(* safe_printf (src/safe_printf/main.cpp): a format template is checked    *)
(* against the normalized arguments by check_printf, and only then handed  *)
(* to the platform printf.                                                 *)
(*                                                                         *)
(* A template is a sequence of one-character strings; the scan position p  *)
(* is the offset of the pointer f from the start of the template, so the   *)
(* terminating NUL is read at offset Len(template).                        *)
(***************************************************************************)
EXTENDS Integers, Sequences, FiniteSets, TLC

VARIABLES prog, ci, pc, f, p, args, rest, stdout, out0, ret, err

vars == <<prog, ci, pc, f, p, args, rest, stdout, out0, ret, err>>

(***************************************************************************)
(* Bounds of the enumerated inputs.                                        *)
(***************************************************************************)
MaxLen == 4
MaxArgs == 2

Chars == {"%", "d", "f", "g", "s", "5"}

NUL == "NUL"
OOB == "OOB"
GARBAGE == "GARBAGE"

(***************************************************************************)
(* Caller-side argument values: a C++ type and a value.  i is the integer  *)
(* value (or the whole part of a floating-point value), micro its          *)
(* fractional part in millionths, s the characters of a text value.        *)
(***************************************************************************)
Arg(type, i, micro, s) == [type |-> type, i |-> i, micro |-> micro, s |-> s]

ArgPool ==
  { Arg("int", 3, 0, <<>>),
    Arg("double", 1, 500000, <<>>),
    Arg("std::string", 0, 0, <<"f", "o", "o">>),
    Arg("int*", 0, 0, <<>>) }

Templates == UNION { [1..n -> Chars] : n \in 0..MaxLen }

ArgLists == UNION { [1..n -> ArgPool] : n \in 0..MaxArgs }

Call(tmpl, ts) == [f |-> tmpl, ts |-> ts]

(***************************************************************************)
(* Type traits.                                                            *)
(***************************************************************************)
(* is_integral that leaves out long, the type ValidateArgument returns. *)
IsIntegral_WithoutLong(T) == T \in {"bool", "char", "short", "int", "unsigned"}

IsIntegral(T) == T \in {"bool", "char", "short", "int", "long", "unsigned"}

IsFloatingPoint(T) == T \in {"float", "double"}

IsPointer(T) == T \in {"const char*", "char*", "int*", "void*"}

IsObject(T) == T \in {"bool", "char", "short", "int", "long", "unsigned",
                      "float", "double", "const char*", "char*", "int*",
                      "void*", "std::string"}

(***************************************************************************)
(* ValidateArgument: integral -> long, floating point -> double, pointer   *)
(* -> itself, std::string -> const char* (c_str()).                        *)
(***************************************************************************)
ValidateArgument(a) ==
  IF IsIntegral(a.type) THEN Arg("long", a.i, 0, <<>>)
  ELSE IF IsFloatingPoint(a.type) THEN Arg("double", a.i, a.micro, <<>>)
  ELSE IF IsPointer(a.type) THEN a
  ELSE Arg("const char*", 0, 0, a.s)

(***************************************************************************)
(* The demonstration run of main.                                          *)
(***************************************************************************)
foo == Arg("std::string", 0, 0, <<"f", "o", "o">>)

bar == Arg("const char*", 0, 0, <<"b", "a", "r">>)

three == Arg("int", 3, 0, <<>>)

GizmoTemplate ==
  <<"C", "o", "n", "s", "t", "r", "u", "c", "t", "e", "d", " ", "a", " ",
    "g", "i", "z", "m", "o", ".", ".", ".", "\n">>

MainProgram ==
  << Call(GizmoTemplate, <<>>),
     Call(<<"%", "s", "%", "s", "%", "d", "\n">>, <<foo, bar, three>>),
     Call(<<"%", "d", "%", "s", "%", "d">>, <<foo, bar, three>>) >>

(***************************************************************************)
(* *f at offset q.                                                         *)
(***************************************************************************)
At(tmpl, q) ==
  IF q < Len(tmpl) THEN tmpl[q + 1]
  ELSE IF q = Len(tmpl) THEN NUL
  ELSE OOB

Init ==
  /\ \/ prog = MainProgram
     \/ \E t \in Templates, a \in ArgLists : prog = <<Call(t, a)>>
  /\ ci = 1
  /\ pc = "call"
  /\ f = <<>>
  /\ p = 0
  /\ args = <<>>
  /\ rest = <<>>
  /\ stdout = <<>>
  /\ out0 = <<>>
  /\ ret = 0
  /\ err = "none"

(* SafePrintfCall writing the template before check_printf has run. *)
SafePrintfCall_PrintsFirst ==
  /\ pc = "call"
  /\ f' = prog[ci].f
  /\ args' = [k \in 1..Len(prog[ci].ts) |-> ValidateArgument(prog[ci].ts[k])]
  /\ rest' = args'
  /\ p' = 0
  /\ out0' = stdout
  /\ stdout' = stdout \o prog[ci].f
  /\ pc' = "check"
  /\ UNCHANGED <<prog, ci, ret, err>>

(***************************************************************************)
(* safe_printf, entry: the arguments are normalized and check_printf is    *)
(* entered at the start of the template.                                   *)
(***************************************************************************)
SafePrintfCall ==
  /\ pc = "call"
  /\ f' = prog[ci].f
  /\ args' = [k \in 1..Len(prog[ci].ts) |-> ValidateArgument(prog[ci].ts[k])]
  /\ rest' = args'
  /\ p' = 0
  /\ out0' = stdout
  /\ pc' = "check"
  /\ UNCHANGED <<prog, ci, stdout, ret, err>>

(***************************************************************************)
(* An exception leaves check_printf and safe_printf; nothing in the        *)
(* program catches it, so the process terminates.                          *)
(***************************************************************************)
Throw(msg) ==
  /\ err' = msg
  /\ pc' = "terminated"

(* Base case that takes a % at the end of the template for its end. *)
CheckPrintfBase_EndAfterPercent ==
  /\ pc = "check"
  /\ rest = <<>>
  /\ IF At(f, p) = NUL \/ (At(f, p) = "%" /\ At(f, p + 1) = NUL)
       THEN /\ pc' = "printf"
            /\ p' = Len(f)
            /\ UNCHANGED err
     ELSE IF At(f, p) # "%"
       THEN /\ p' = p + 1
            /\ UNCHANGED <<pc, err>>
     ELSE IF At(f, p + 1) = "%"
       THEN /\ p' = p + 2
            /\ UNCHANGED <<pc, err>>
     ELSE /\ p' = p + 1
          /\ Throw("Bad format")
  /\ UNCHANGED <<prog, ci, f, args, rest, stdout, out0, ret>>

(* Base case that steps over the character after a % before testing it. *)
CheckPrintfBase_SkipsConversion ==
  /\ pc = "check"
  /\ rest = <<>>
  /\ IF At(f, p) = NUL
       THEN /\ pc' = "printf"
            /\ UNCHANGED <<p, err>>
     ELSE IF At(f, p) # "%"
       THEN /\ p' = p + 1
            /\ UNCHANGED <<pc, err>>
     ELSE IF At(f, p + 2) = "%"
       THEN /\ p' = p + 3
            /\ UNCHANGED <<pc, err>>
     ELSE /\ p' = p + 2
          /\ Throw("Bad format")
  /\ UNCHANGED <<prog, ci, f, args, rest, stdout, out0, ret>>

(***************************************************************************)
(* check_printf, recursion base case (no argument left): one iteration of  *)
(* the for loop.                                                           *)
(***************************************************************************)
CheckPrintfBase ==
  /\ pc = "check"
  /\ rest = <<>>
  /\ IF At(f, p) = NUL
       THEN /\ pc' = "printf"
            /\ UNCHANGED <<p, err>>
     ELSE IF At(f, p) # "%"
       THEN /\ p' = p + 1
            /\ UNCHANGED <<pc, err>>
     ELSE IF At(f, p + 1) = "%"
       THEN /\ p' = p + 2
            /\ UNCHANGED <<pc, err>>
     ELSE /\ p' = p + 1
          /\ Throw("Bad format")
  /\ UNCHANGED <<prog, ci, f, args, rest, stdout, out0, ret>>

(* DirectiveError with no type test in the d case. *)
DirectiveError_NoIntegralTest(c, T) ==
  CASE c \in {"f", "g"} ->
         IF ~IsFloatingPoint(T) THEN "Parameter is not floating point!" ELSE "none"
    [] c = "d" -> "none"
    [] c = "s" ->
         IF ~IsObject("char*") \/ ~IsObject("std::string")
           THEN "Non-string parameter" ELSE "none"
    [] OTHER -> "Invalid format character"

(* DirectiveError with the d case testing the floating-point trait. *)
DirectiveError_SwappedTrait(c, T) ==
  CASE c \in {"f", "g"} ->
         IF ~IsFloatingPoint(T) THEN "Parameter is not floating point!" ELSE "none"
    [] c = "d" ->
         IF ~IsFloatingPoint(T) THEN "Parameter is not integral" ELSE "none"
    [] c = "s" ->
         IF ~IsObject("char*") \/ ~IsObject("std::string")
           THEN "Non-string parameter" ELSE "none"
    [] OTHER -> "Invalid format character"

(* DirectiveError with a default case that breaks instead of throwing. *)
DirectiveError_NoDefault(c, T) ==
  CASE c \in {"f", "g"} ->
         IF ~IsFloatingPoint(T) THEN "Parameter is not floating point!" ELSE "none"
    [] c = "d" ->
         IF ~IsIntegral(T) THEN "Parameter is not integral" ELSE "none"
    [] c = "s" ->
         IF ~IsObject("char*") \/ ~IsObject("std::string")
           THEN "Non-string parameter" ELSE "none"
    [] OTHER -> "none"

(***************************************************************************)
(* The switch of the recursive check_printf on the conversion character c  *)
(* for an argument of type T: the message thrown, or "none".               *)
(***************************************************************************)
DirectiveError(c, T) ==
  CASE c \in {"f", "g"} ->
         IF ~IsFloatingPoint(T) THEN "Parameter is not floating point!" ELSE "none"
    [] c = "d" ->
         IF ~IsIntegral(T) THEN "Parameter is not integral" ELSE "none"
    [] c = "s" ->
         IF ~IsObject("char*") \/ ~IsObject("std::string")
           THEN "Non-string parameter" ELSE "none"
    [] OTHER -> "Invalid format character"

(***************************************************************************)
(* check_printf, recursive overload (at least one argument left): one      *)
(* iteration of the for loop; a directive that passes the switch enters    *)
(* check_printf (++f, ts...).                                              *)
(***************************************************************************)
CheckPrintfRec ==
  /\ pc = "check"
  /\ rest # <<>>
  /\ IF At(f, p) = NUL
       THEN /\ pc' = "printf"
            /\ UNCHANGED <<p, rest, err>>
     ELSE IF At(f, p) # "%"
       THEN /\ p' = p + 1
            /\ UNCHANGED <<pc, rest, err>>
     ELSE IF At(f, p + 1) = "%"
       THEN /\ p' = p + 2
            /\ UNCHANGED <<pc, rest, err>>
     ELSE IF DirectiveError(At(f, p + 1), Head(rest).type) # "none"
       THEN /\ p' = p + 1
            /\ Throw(DirectiveError(At(f, p + 1), Head(rest).type))
            /\ UNCHANGED rest
     ELSE /\ p' = p + 2
          /\ rest' = Tail(rest)
          /\ UNCHANGED <<pc, err>>
  /\ UNCHANGED <<prog, ci, f, args, stdout, out0, ret>>

(***************************************************************************)
(* The platform printf.                                                    *)
(***************************************************************************)
Digit(n) == <<"0", "1", "2", "3", "4", "5", "6", "7", "8", "9">>[n + 1]

RECURSIVE FormatNat(_)
FormatNat(n) ==
  IF n < 10 THEN <<Digit(n)>> ELSE FormatNat(n \div 10) \o <<Digit(n % 10)>>

FormatInt(n) == IF n < 0 THEN <<"-">> \o FormatNat(-n) ELSE FormatNat(n)

Pow10(k) == <<1, 10, 100, 1000, 10000, 100000>>[k + 1]

(* %f: six digits after the point. *)
FormatF(a) ==
  FormatNat(a.i) \o <<".">> \o [k \in 1..6 |-> Digit((a.micro \div Pow10(6 - k)) % 10)]

RECURSIVE StripZeros(_)
StripZeros(ds) ==
  IF ds # <<>> /\ ds[Len(ds)] = "0" THEN StripZeros(SubSeq(ds, 1, Len(ds) - 1)) ELSE ds

(* %g for values of at most six significant digits: trailing zeros and a *)
(* trailing point are removed.                                           *)
FormatG(a) ==
  IF a.micro = 0 THEN FormatNat(a.i)
  ELSE FormatNat(a.i) \o <<".">>
         \o StripZeros([k \in 1..6 |-> Digit((a.micro \div Pow10(6 - k)) % 10)])

(* %d reads an int where ValidateArgument passed a long; every value of  *)
(* the model fits an int, so the digits are those of the value.          *)
Conversion(c, a) ==
  CASE c = "d" -> FormatInt(a.i)
    [] c = "s" -> a.s
    [] c = "f" -> FormatF(a)
    [] c = "g" -> FormatG(a)
    [] OTHER -> <<GARBAGE>>

(* The type printf reads for conversion c matches the argument passed. *)
ConversionDefined(c, a) ==
  CASE c = "d" -> a.type = "long"
    [] c = "s" -> a.type \in {"const char*", "char*"}
    [] c \in {"f", "g"} -> a.type = "double"
    [] OTHER -> FALSE

RECURSIVE PrintfDefined(_, _, _)
PrintfDefined(tmpl, q, as) ==
  IF At(tmpl, q) = NUL THEN TRUE
  ELSE IF At(tmpl, q) # "%" THEN PrintfDefined(tmpl, q + 1, as)
  ELSE IF At(tmpl, q + 1) = "%" THEN PrintfDefined(tmpl, q + 2, as)
  ELSE /\ as # <<>>
       /\ ConversionDefined(At(tmpl, q + 1), Head(as))
       /\ PrintfDefined(tmpl, q + 2, Tail(as))

(* Format that writes a %% escape as two characters. *)
RECURSIVE Format_KeepsEscape(_, _, _)
Format_KeepsEscape(tmpl, q, as) ==
  IF At(tmpl, q) = NUL THEN <<>>
  ELSE IF At(tmpl, q) # "%" THEN <<At(tmpl, q)>> \o Format_KeepsEscape(tmpl, q + 1, as)
  ELSE IF At(tmpl, q + 1) = "%" THEN <<"%", "%">> \o Format_KeepsEscape(tmpl, q + 2, as)
  ELSE Conversion(At(tmpl, q + 1), Head(as)) \o Format_KeepsEscape(tmpl, q + 2, Tail(as))

RECURSIVE Format(_, _, _)
Format(tmpl, q, as) ==
  IF At(tmpl, q) = NUL THEN <<>>
  ELSE IF At(tmpl, q) # "%" THEN <<At(tmpl, q)>> \o Format(tmpl, q + 1, as)
  ELSE IF At(tmpl, q + 1) = "%" THEN <<"%">> \o Format(tmpl, q + 2, as)
  ELSE Conversion(At(tmpl, q + 1), Head(as)) \o Format(tmpl, q + 2, Tail(as))

(***************************************************************************)
(* safe_printf, after check_printf returned: return printf (f, ...).       *)
(***************************************************************************)
Printf ==
  /\ pc = "printf"
  /\ PrintfDefined(f, 0, args)
  /\ stdout' = stdout \o Format(f, 0, args)
  /\ ret' = Len(Format(f, 0, args))
  /\ pc' = "returned"
  /\ UNCHANGED <<prog, ci, f, p, args, rest, out0, err>>

(***************************************************************************)
(* printf reached with a conversion whose argument has another type: the   *)
(* behaviour is undefined; the process crashes or garbage is written.      *)
(***************************************************************************)
PrintfUndefined ==
  /\ pc = "printf"
  /\ ~PrintfDefined(f, 0, args)
  /\ \/ /\ pc' = "crashed"
        /\ UNCHANGED <<stdout, ret>>
     \/ /\ pc' = "returned"
        /\ stdout' = stdout \o <<GARBAGE>>
        /\ ret' = 1
  /\ UNCHANGED <<prog, ci, f, p, args, rest, out0, err>>

(***************************************************************************)
(* The caller goes on to its next call, or main returns.                   *)
(***************************************************************************)
Return ==
  /\ pc = "returned"
  /\ IF ci < Len(prog)
       THEN /\ ci' = ci + 1
            /\ pc' = "call"
       ELSE /\ pc' = "exit"
            /\ UNCHANGED ci
  /\ UNCHANGED <<prog, f, p, args, rest, stdout, out0, ret, err>>

Next ==
  \/ SafePrintfCall
  \/ CheckPrintfBase
  \/ CheckPrintfRec
  \/ Printf
  \/ PrintfUndefined
  \/ Return

Spec == Init /\ [][Next]_vars

(***************************************************************************)
(* Vocabulary of the claims, defined on the template and the argument      *)
(* categories, independently of check_printf.                              *)
(***************************************************************************)

(* The directives of a template from offset q on: the conversion character *)
(* c (NUL for a lone % that ends the template) and its offset at.  A %%    *)
(* escape is no directive.                                                 *)
RECURSIVE DirectivesFrom(_, _)
DirectivesFrom(tmpl, q) ==
  IF q >= Len(tmpl) THEN <<>>
  ELSE IF tmpl[q + 1] # "%" THEN DirectivesFrom(tmpl, q + 1)
  ELSE IF q + 1 >= Len(tmpl) THEN << [c |-> NUL, at |-> q + 1] >>
  ELSE IF tmpl[q + 2] = "%" THEN DirectivesFrom(tmpl, q + 2)
  ELSE << [c |-> tmpl[q + 2], at |-> q + 1] >> \o DirectivesFrom(tmpl, q + 2)

Directives(tmpl) == DirectivesFrom(tmpl, 0)

(* Category of a normalized argument. *)
Category(a) ==
  CASE a.type = "long" -> "Integral"
    [] a.type = "double" -> "Float"
    [] a.type \in {"const char*", "char*"} -> "Text"
    [] OTHER -> "Pointer"

(* Category a conversion character asks for. *)
Kind(c) ==
  CASE c = "d" -> "Integral"
    [] c \in {"f", "g"} -> "Float"
    [] c = "s" -> "Text"
    [] OTHER -> "Unrecognized"

Matches(d, a) == Kind(d.c) = Category(a)

(* The first n directives of the current template match the first n *)
(* arguments.                                                        *)
PrefixMatches(n) ==
  /\ n <= Len(Directives(f))
  /\ n <= Len(args)
  /\ \A j \in 1..n : Matches(Directives(f)[j], args[j])

(* f, args and out0 are those of the call entered last. *)
InCall == pc # "call"

(* check_printf returned normally. *)
Succeeded == pc \in {"printf", "returned", "crashed", "exit"}

(* safe_printf returned to its caller. *)
Returned == pc \in {"returned", "exit"}

Raised == pc = "terminated"

Consumed == Len(args) - Len(rest)

(***************************************************************************)
(* C1: a call completes without raising only if the number of directives   *)
(* (not counting %%) equals the number of arguments and every directive's  *)
(* category matches the argument at its position.                          *)
(***************************************************************************)
C1_SucceedsOnlyIfArityAndCategoriesMatch ==
  Succeeded =>
    /\ Len(Directives(f)) = Len(args)
    /\ PrefixMatches(Len(args))

(***************************************************************************)
(* C3: when the k-th directive is s, the k-th argument is not of text      *)
(* category and the earlier directives match, the call raises              *)
(* "Non-string parameter" and does not succeed.                            *)
(***************************************************************************)
C3_StringDirectiveRejectsNonText ==
  \A k \in 1..Len(args) :
    ( /\ InCall
      /\ k <= Len(Directives(f))
      /\ PrefixMatches(k - 1)
      /\ Directives(f)[k].c = "s"
      /\ Category(args[k]) # "Text" )
    => /\ ~Succeeded
       /\ Raised => err = "Non-string parameter"

(***************************************************************************)
(* C2: when the first k-1 directives match their arguments and the k-th    *)
(* directive is d with a k-th argument that is not integral, the call      *)
(* raises "Parameter is not integral"; when it is f or g with a k-th       *)
(* argument that is not floating point, the call raises "Parameter is not  *)
(* floating point!".  The scan stops at that directive: the position never *)
(* passes its conversion character and no argument after the k-th is       *)
(* reached.                                                                *)
(***************************************************************************)
C2_MismatchMessage(k) ==
  IF Directives(f)[k].c = "d" THEN "Parameter is not integral"
  ELSE "Parameter is not floating point!"

C2_NumericMismatchRaises ==
  \A k \in 1..Len(args) :
    ( /\ InCall
      /\ k <= Len(Directives(f))
      /\ PrefixMatches(k - 1)
      /\ Kind(Directives(f)[k].c) \in {"Integral", "Float"}
      /\ Category(args[k]) # Kind(Directives(f)[k].c) )
    => /\ ~Succeeded
       /\ p <= Directives(f)[k].at
       /\ Consumed <= k - 1
       /\ Raised => /\ err = C2_MismatchMessage(k)
                    /\ p = Directives(f)[k].at
                    /\ Consumed = k - 1

(* A second directive g met a text argument after a first directive matched. *)
C2_Witness ==
  /\ Raised
  /\ err = "Parameter is not floating point!"
  /\ Consumed = 1
  /\ At(f, p) = "g"
  /\ Category(args[2]) = "Text"

(***************************************************************************)
(* C4 as stated: a % followed by a character outside {f, g, d, s, %}       *)
(* (the end of the template included), every earlier directive matching    *)
(* its argument, raises "Invalid format character" for every number of     *)
(* arguments still unconsumed, zero included.                              *)
(***************************************************************************)
C4_UnrecognizedAlwaysInvalidFormatCharacter ==
  \A k \in 1..Len(Directives(f)) :
    ( /\ InCall
      /\ Kind(Directives(f)[k].c) = "Unrecognized"
      /\ PrefixMatches(k - 1) )
    => /\ ~Succeeded
       /\ Raised => err = "Invalid format character"

(***************************************************************************)
(* C4 amended: such a directive raises "Invalid format character" when at  *)
(* least one argument is still unconsumed at it; with no argument left the *)
(* call raises "Bad format" instead.  Either way the call does not         *)
(* succeed and the scan stops at that directive.                           *)
(***************************************************************************)
C4_UnrecognizedRaises ==
  \A k \in 1..Len(Directives(f)) :
    ( /\ InCall
      /\ Kind(Directives(f)[k].c) = "Unrecognized"
      /\ PrefixMatches(k - 1) )
    => /\ ~Succeeded
       /\ Raised => /\ p = Directives(f)[k].at
                    /\ Consumed = k - 1
                    /\ err = IF Len(args) >= k THEN "Invalid format character"
                             ELSE "Bad format"

(* A digit after the second % with an argument left for it. *)
C4_Witness ==
  /\ Raised
  /\ err = "Invalid format character"
  /\ Consumed = 1
  /\ At(f, p) = "5"
  /\ Len(rest) = 1

(***************************************************************************)
(* C5: printf is performed only after check_printf has scanned the         *)
(* template to its end and returned normally; while the check runs, and    *)
(* after a call that raised, standard output is what it was before the     *)
(* call.                                                                   *)
(***************************************************************************)
C5_ValidationPrecedesOutput ==
  /\ [](pc \in {"check", "printf", "terminated"} => stdout = out0)
  /\ [](pc = "printf" => p = Len(f) /\ err = "none")
  /\ [][stdout' # stdout => pc = "printf" /\ p = Len(f) /\ err = "none"]_vars

(* The third call of main raised after two calls had written output. *)
C5_Witness ==
  /\ Raised
  /\ out0 # <<>>
  /\ stdout = out0
  /\ Directives(f) # <<>>

(***************************************************************************)
(* C6: for a template of literal characters and %% escapes only, a call    *)
(* with no arguments never raises, and the text written is the template    *)
(* with each %% replaced by a single %.                                    *)
(***************************************************************************)
RECURSIVE UnescapeFrom(_, _)
UnescapeFrom(tmpl, q) ==
  IF q >= Len(tmpl) THEN <<>>
  ELSE IF tmpl[q + 1] = "%" /\ q + 1 < Len(tmpl) /\ tmpl[q + 2] = "%"
    THEN <<"%">> \o UnescapeFrom(tmpl, q + 2)
  ELSE <<tmpl[q + 1]>> \o UnescapeFrom(tmpl, q + 1)

C6_LiteralTemplateWritesUnescaped ==
  (InCall /\ Directives(f) = <<>> /\ args = <<>>)
  => /\ ~Raised
     /\ pc # "crashed"
     /\ err = "none"
     /\ Returned => /\ stdout = out0 \o UnescapeFrom(f, 0)
                    /\ ret = Len(UnescapeFrom(f, 0))

(* A template with a %% escape between literal characters was written. *)
C6_Witness ==
  /\ pc = "returned"
  /\ args = <<>>
  /\ f = <<"d", "%", "%", "5">>
  /\ stdout = <<"d", "%", "5">>

(***************************************************************************)
(* C7: when the directive kinds of the template equal, position by         *)
(* position and in number, the categories of the arguments, the call       *)
(* succeeds without raising, one argument is consumed per directive, the   *)
(* output is what printf produces for the template and the normalized      *)
(* arguments and the value returned is printf's.  Template "%s%s%d\n"      *)
(* with (foo, "bar", 3) writes "foobar3\n".                                *)
(***************************************************************************)
DirectivesBefore(q) ==
  Cardinality({ k \in 1..Len(Directives(f)) : Directives(f)[k].at < q })

Scenario1Template == <<"%", "s", "%", "s", "%", "d", "\n">>

Scenario1Args ==
  << Arg("const char*", 0, 0, <<"f", "o", "o">>),
     Arg("const char*", 0, 0, <<"b", "a", "r">>),
     Arg("long", 3, 0, <<>>) >>

C7_MatchingCallSucceeds ==
  ( /\ InCall
    /\ Len(Directives(f)) = Len(args)
    /\ PrefixMatches(Len(args)) )
  => /\ ~Raised
     /\ pc # "crashed"
     /\ err = "none"
     /\ pc = "check" => Consumed = DirectivesBefore(p)
     /\ Succeeded => rest = <<>>
     /\ Returned => /\ stdout = out0 \o Format(f, 0, args)
                    /\ ret = Len(Format(f, 0, args))
     /\ (Returned /\ f = Scenario1Template /\ args = Scenario1Args)
          => stdout = out0 \o <<"f", "o", "o", "b", "a", "r", "3", "\n">>

(* The second call of main returned. *)
C7_Witness ==
  /\ pc = "returned"
  /\ f = Scenario1Template
  /\ args = Scenario1Args
  /\ rest = <<>>
  /\ stdout = GizmoTemplate \o <<"f", "o", "o", "b", "a", "r", "3", "\n">>

(***************************************************************************)
(* C8: when the template has more directives than there are arguments and  *)
(* the directives up to the argument count all match, the call raises      *)
(* "Bad format" at the first directive after the arguments are exhausted,  *)
(* whatever its conversion character, a lone % at the end of the template  *)
(* included, and never succeeds.                                           *)
(***************************************************************************)
C8_DirectiveWithoutArgumentRaises ==
  ( /\ InCall
    /\ Len(Directives(f)) > Len(args)
    /\ PrefixMatches(Len(args)) )
  => /\ ~Succeeded
     /\ p <= Directives(f)[Len(args) + 1].at
     /\ Raised => /\ err = "Bad format"
                  /\ p = Directives(f)[Len(args) + 1].at
                  /\ rest = <<>>

(* A lone % ended the template after the only argument was consumed. *)
C8_Witness ==
  /\ Raised
  /\ err = "Bad format"
  /\ Len(args) = 1
  /\ rest = <<>>
  /\ p = Len(f)
  /\ Len(Directives(f)) = 2

(***************************************************************************)
(* C9: the run of main makes three calls in order: the Gizmo constructor's *)
(* call succeeds, the call with "%s%s%d\n" succeeds, the call with         *)
(* "%d%s%d" raises "Parameter is not integral" at its first directive; the *)
(* run ends there, with standard output "Constructed a gizmo...\nfoobar3\n"*)
(* and nothing written by the third call.                                  *)
(***************************************************************************)
C9_Output == GizmoTemplate \o <<"f", "o", "o", "b", "a", "r", "3", "\n">>

C9_MainRun ==
  prog = MainProgram
  => /\ pc \notin {"exit", "crashed"}
     /\ Raised => /\ ci = 3
                  /\ err = "Parameter is not integral"
                  /\ p = 1
                  /\ rest = args
                  /\ out0 = C9_Output
                  /\ stdout = C9_Output
     /\ (ci = 1 /\ pc = "returned") => stdout = GizmoTemplate
     /\ (ci = 2 /\ pc # "returned") => stdout = GizmoTemplate
     /\ (ci = 2 /\ pc = "returned") => stdout = C9_Output
     /\ ci = 3 => stdout = C9_Output
     /\ ~ENABLED Next => Raised

(* main ended in the third call's exception. *)
C9_Witness ==
  /\ prog = MainProgram
  /\ Raised
  /\ ci = 3
  /\ stdout = C9_Output

(***************************************************************************)
(* C10: the scan position stays within 0..n for a template of length n,    *)
(* the terminating NUL being the last character read; within a call the    *)
(* position never decreases and the number of arguments left never         *)
(* increases; every iteration that stays in the check advances the         *)
(* position, so the check ends after at most n + 1 iterations.             *)
(***************************************************************************)
C10_ScanPosition ==
  /\ [](InCall => 0 <= p /\ p <= Len(f))
  /\ [](pc = "check" => At(f, p) # OOB /\ (At(f, p) = "%" => At(f, p + 1) # OOB))
  /\ [][pc = "check" => /\ f' = f
                        /\ p' >= p
                        /\ Len(rest') <= Len(rest)
                        /\ pc' = "check" => p' > p]_vars

(* The NUL after a lone % at the end of the template was read. *)
C10_Witness ==
  /\ Raised
  /\ Len(f) >= 3
  /\ p = Len(f)
  /\ At(f, p - 1) = "%"
  /\ At(f, p - 2) = "%"
====
